---- MODULE Spec2Model ----
(***************************************************************************)
(* A model of the grayt ray tracer: the f64 arithmetic its geometry rests  *)
(* on, the Hittable hierarchy (Sphere, Rect, Moving, the list aggregate,   *)
(* BvhNode), the materials and the integrator loop.                        *)
(*                                                                         *)
(* Numbers.  An f64 is modelled as a small binary floating-point value:    *)
(* a finite value is an integer count of quanta (one quantum is            *)
(* 1/2^FracBits), rounded after every operation to Prec significant bits   *)
(* (round to nearest, ties to even), or one of NaN, +infinity, -infinity.  *)
(* The sign of zero is not modelled: every zero is +0.0.                   *)
(***************************************************************************)
EXTENDS Integers, Sequences, FiniteSets, TLC

\* Bounds of the number format.
Prec == 8
FracBits == 4

Unit == 2 ^ FracBits            \* the quanta in 1.0
Half == Unit \div 2             \* 0.5

PInf == 2 ^ 30
NInf == 0 - PInf
NaN == PInf + 1

IsNaN(x) == x = NaN
IsFinite(x) == x > NInf /\ x < PInf
Abs(n) == IF n < 0 THEN 0 - n ELSE n
Sign(n) == IF n < 0 THEN 0 - 1 ELSE 1

\* The number of bits of the natural number n.
BitLen(n) == CHOOSE k \in 0..30 : n < 2 ^ k /\ (k = 0 \/ 2 ^ (k - 1) <= n)

\* The distance between neighbouring representable values of bits bits.
StepOf(bits) == IF bits <= Prec THEN 1 ELSE 2 ^ (bits - Prec)

\* The distance between neighbouring representable values around q quanta.
Step(q) == StepOf(BitLen(q))

\* lo * st or the next value up: up when twice the remainder r2 is above
\* the divisor d, or equal to it with lo odd (ties to the even mantissa).
RoundUp(lo, r2, d, st) ==
    (IF r2 > d \/ (r2 = d /\ lo % 2 = 1) THEN lo + 1 ELSE lo) * st

RoundBy(num, d, st) == RoundUp(num \div d, 2 * (num % d), d, st)

RoundStep(num, den, st) == RoundBy(num, den * st, st)

\* num/den (num >= 0, den > 0) rounded to the nearest representable value,
\* ties to the even mantissa.
RoundRat(num, den) == RoundStep(num, den, Step(num \div den))

Rnd(n) == Sign(n) * RoundRat(Abs(n), 1)

RECURSIVE ISqrt(_)
ISqrt(n) == IF n < 2 THEN n
            ELSE LET s == 2 * ISqrt(n \div 4)
                 IN  IF (s + 1) * (s + 1) <= n THEN s + 1 ELSE s

\* lo or lo + st, whichever is nearer to sqrt(n); m2 is twice their midpoint.
SqrtPick(n, lo, st, m2) ==
    IF 4 * n > m2 * m2 \/ (4 * n = m2 * m2 /\ (lo \div st) % 2 = 1)
    THEN lo + st ELSE lo

SqrtLow(n, lo, st) == SqrtPick(n, lo, st, 2 * lo + st)

SqrtStep(n, s, st) == SqrtLow(n, (s \div st) * st, st)

SqrtFloor(n, s) == SqrtStep(n, s, Step(s))

\* sqrt(n) for a natural n, rounded to the nearest representable value.
RoundSqrt(n) == SqrtFloor(n, ISqrt(n))

FNeg(a) == IF IsNaN(a) THEN NaN ELSE 0 - a

FAdd(a, b) ==
    IF IsNaN(a) \/ IsNaN(b) THEN NaN
    ELSE IF ~IsFinite(a) THEN (IF ~IsFinite(b) /\ a # b THEN NaN ELSE a)
    ELSE IF ~IsFinite(b) THEN b
    ELSE Rnd(a + b)

FSub(a, b) == FAdd(a, FNeg(b))

FMul(a, b) ==
    IF IsNaN(a) \/ IsNaN(b) THEN NaN
    ELSE IF ~IsFinite(a) \/ ~IsFinite(b)
         THEN (IF a = 0 \/ b = 0 THEN NaN
               ELSE IF Sign(a) = Sign(b) THEN PInf ELSE NInf)
    ELSE Sign(a) * Sign(b) * RoundRat(Abs(a) * Abs(b), Unit)

FDiv(a, b) ==
    IF IsNaN(a) \/ IsNaN(b) THEN NaN
    ELSE IF ~IsFinite(a)
         THEN (IF ~IsFinite(b) THEN NaN
               ELSE IF Sign(a) = Sign(b) THEN PInf ELSE NInf)
    ELSE IF ~IsFinite(b) THEN 0
    ELSE IF b = 0
         THEN (IF a = 0 THEN NaN ELSE IF a > 0 THEN PInf ELSE NInf)
    ELSE Sign(a) * Sign(b) * RoundRat(Abs(a) * Unit, Abs(b))

FSqrt(a) ==
    IF IsNaN(a) \/ a < 0 THEN NaN
    ELSE IF a = PInf THEN PInf
    ELSE RoundSqrt(a * Unit)

\* The comparison operators of f64: false when an operand is NaN.
FLt(a, b) == ~IsNaN(a) /\ ~IsNaN(b) /\ a < b
FLe(a, b) == ~IsNaN(a) /\ ~IsNaN(b) /\ a <= b
FGt(a, b) == FLt(b, a)

\* f64::abs
FAbs(x) == IF IsNaN(x) THEN NaN ELSE Abs(x)

\* f64::min and f64::max: the other operand when one is NaN.
FMin(a, b) == IF IsNaN(a) THEN b ELSE IF IsNaN(b) THEN a ELSE IF a < b THEN a ELSE b
FMax(a, b) == IF IsNaN(a) THEN b ELSE IF IsNaN(b) THEN a ELSE IF a > b THEN a ELSE b

\* RangeInclusive::contains, had it accepted every t.
Contains_all(t_min, t_max, t) == TRUE

\* (t_min..=t_max).contains(&t)
Contains(t_min, t_max, t) == FLe(t_min, t) /\ FLe(t, t_max)

\* f64::total_cmp: a total order with NaN above +infinity.
TotalLe(a, b) == a <= b

\* DVec3, as a 3-tuple.
VAdd(u, v) == <<FAdd(u[1], v[1]), FAdd(u[2], v[2]), FAdd(u[3], v[3])>>
VSub(u, v) == <<FSub(u[1], v[1]), FSub(u[2], v[2]), FSub(u[3], v[3])>>
VNeg(u) == <<FNeg(u[1]), FNeg(u[2]), FNeg(u[3])>>
VScale(u, s) == <<FMul(u[1], s), FMul(u[2], s), FMul(u[3], s)>>
\* Division by the magnitude of s: what would hide the sign of a radius.
VDivS_abs(u, s) == <<FDiv(u[1], FAbs(s)), FDiv(u[2], FAbs(s)), FDiv(u[3], FAbs(s))>>
VDivS(u, s) == <<FDiv(u[1], s), FDiv(u[2], s), FDiv(u[3], s)>>
VDiv(u, v) == <<FDiv(u[1], v[1]), FDiv(u[2], v[2]), FDiv(u[3], v[3])>>
VMin(u, v) == <<FMin(u[1], v[1]), FMin(u[2], v[2]), FMin(u[3], v[3])>>
VMax(u, v) == <<FMax(u[1], v[1]), FMax(u[2], v[2]), FMax(u[3], v[3])>>
VDot(u, v) == FAdd(FAdd(FMul(u[1], v[1]), FMul(u[2], v[2])), FMul(u[3], v[3]))
LengthSquared(u) == VDot(u, u)
MaxElement(u) == FMax(u[1], FMax(u[2], u[3]))
MinElement(u) == FMin(u[1], FMin(u[2], u[3]))
Splat(s) == <<s, s, s>>


\* Option<T>
None == [some |-> FALSE]
Some(v) == [some |-> TRUE, val |-> v]

(***************************************************************************)
(* ray.rs                                                                  *)
(***************************************************************************)
Ray(origin, direction, time) ==
    [origin |-> origin, direction |-> direction, time |-> time]

RayAt(ray, t) == VAdd(ray.origin, VScale(ray.direction, t))

(***************************************************************************)
(* hittable.rs                                                             *)
(***************************************************************************)
HitRecord(t, point, normal, uv, face, material) ==
    [t |-> t, point |-> point, normal |-> normal, uv |-> uv, face |-> face,
     material |-> material]

\* A compute_face_normal that names the face but never turns the normal.
compute_face_normal_unturned(ray, outward_normal) ==
    [normal |-> outward_normal,
     face |-> IF FLt(VDot(ray.direction, outward_normal), 0)
              THEN "Front" ELSE "Back"]

\* compute_face_normal
compute_face_normal(ray, outward_normal) ==
    IF FLt(VDot(ray.direction, outward_normal), 0)
    THEN [normal |-> outward_normal, face |-> "Front"]
    ELSE [normal |-> VNeg(outward_normal), face |-> "Back"]

Aabb(minimum, maximum) == [minimum |-> minimum, maximum |-> maximum]

is_hit_by(box, ray, t_min, t_max) ==
    LET a  == VDiv(VSub(box.minimum, ray.origin), ray.direction)
        b  == VDiv(VSub(box.maximum, ray.origin), ray.direction)
        t0 == FMax(MaxElement(VMin(a, b)), t_min)
        t1 == FMin(MinElement(VMax(a, b)), t_max)
    IN  FLt(t0, t1)

\* A union that takes the componentwise min of the maxima as well.
union_of_minima(box, other) ==
    Aabb(VMin(box.minimum, other.minimum), VMin(box.maximum, other.maximum))

\* Aabb::union
union(box, other) ==
    Aabb(VMin(box.minimum, other.minimum), VMax(box.maximum, other.maximum))

offset(box, off) == Aabb(VAdd(box.minimum, off), VAdd(box.maximum, off))

\* The objects of the scene, as records tagged with their type.
Sphere(center, radius, material) ==
    [kind |-> "Sphere", center |-> center, radius |-> radius,
     material |-> material]
Rect(plane, min, max, k, material) ==
    [kind |-> "Rect", plane |-> plane, min |-> min, max |-> max, k |-> k,
     material |-> material]
Moving(velocity, inner) ==
    [kind |-> "Moving", velocity |-> velocity, inner |-> inner]
BvhNode(left, right, bounding_box) ==
    [kind |-> "BvhNode", left |-> left, right |-> right,
     bounding_box |-> bounding_box]
World(objects) == [kind |-> "World", objects |-> objects]

\* f64::acos(y) / PI, interpolated between its values at -1, 0 and 1;
\* NaN outside [-1, 1], as acos is.
AcosOverPi(y) ==
    IF IsNaN(y) \/ FGt(FAbs(y), Unit) THEN NaN
    ELSE FDiv(FSub(Unit, y), 2 * Unit)

\* f64::atan2(y, x) / TAU in [-1/2, 1/2], interpolated between its values
\* at the multiples of an eighth of a turn.
Atan2OverTau(y, x) ==
    LET quarter == Unit \div 4
        ax == FAbs(x)
        ay == FAbs(y)
        part == FDiv(ay, FAdd(ax, ay))     \* 0 on the x axis, 1 on the y axis
        turn == IF FLt(x, 0) THEN FSub(2 * Unit, part) ELSE part
        signed == IF FLt(y, 0) THEN FNeg(turn) ELSE turn
    IN  IF IsNaN(x) \/ IsNaN(y) THEN NaN
        ELSE IF x = 0 /\ y = 0 THEN 0
        ELSE FMul(signed, quarter)

\* Sphere::get_uv
get_uv(point) ==
    LET latitude  == AcosOverPi(point[2])
        longitude == FAdd(Atan2OverTau(FNeg(point[3]), point[1]), Half)
    IN  <<longitude, latitude>>

\* Sphere::hit had it tried the far root t2 before the near root t1.
SphereHit_far_root(self, ray, t_min, t_max) ==
    LET center_to_origin == VSub(ray.origin, self.center)
        a            == LengthSquared(ray.direction)
        half_b       == VDot(ray.direction, center_to_origin)
        c            == FSub(LengthSquared(center_to_origin),
                             FMul(self.radius, self.radius))
        discriminant == FSub(FMul(half_b, half_b), FMul(a, c))
        t1 == FDiv(FSub(FNeg(half_b), FSqrt(discriminant)), a)
        t2 == FDiv(FAdd(FNeg(half_b), FSqrt(discriminant)), a)
        rec(t) ==
            LET point          == RayAt(ray, t)
                outward_normal == VDivS(VSub(point, self.center), self.radius)
                fn             == compute_face_normal(ray, outward_normal)
                uv             == get_uv(outward_normal)
            IN  Some(HitRecord(t, point, fn.normal, uv, fn.face, self.material))
    IN  IF FLt(discriminant, 0) THEN None
        ELSE IF Contains(t_min, t_max, t2) THEN rec(t2)
        ELSE IF Contains(t_min, t_max, t1) THEN rec(t1)
        ELSE None

\* Sphere::hit
SphereHit(self, ray, t_min, t_max) ==
    LET center_to_origin == VSub(ray.origin, self.center)
        a            == LengthSquared(ray.direction)
        half_b       == VDot(ray.direction, center_to_origin)
        c            == FSub(LengthSquared(center_to_origin),
                             FMul(self.radius, self.radius))
        discriminant == FSub(FMul(half_b, half_b), FMul(a, c))
        t1 == FDiv(FSub(FNeg(half_b), FSqrt(discriminant)), a)
        t2 == FDiv(FAdd(FNeg(half_b), FSqrt(discriminant)), a)
        rec(t) ==
            LET point          == RayAt(ray, t)
                outward_normal == VDivS(VSub(point, self.center), self.radius)
                fn             == compute_face_normal(ray, outward_normal)
                uv             == get_uv(outward_normal)
            IN  Some(HitRecord(t, point, fn.normal, uv, fn.face, self.material))
    IN  IF FLt(discriminant, 0) THEN None
        ELSE IF Contains(t_min, t_max, t1) THEN rec(t1)
        ELSE IF Contains(t_min, t_max, t2) THEN rec(t2)
        ELSE None

SphereBoundingBox(self) ==
    Some(Aabb(VSub(self.center, Splat(self.radius)),
              VAdd(self.center, Splat(self.radius))))

\* Rect::hit
RectHit(self, ray, t_min, t_max) ==
    LET t == CASE self.plane = "XY" ->
                    FDiv(FSub(self.k, ray.origin[3]), ray.direction[3])
              [] self.plane = "YZ" ->
                    FDiv(FSub(self.k, ray.origin[1]), ray.direction[1])
              [] self.plane = "ZX" ->
                    FDiv(FSub(self.k, ray.origin[2]), ray.direction[2])
        point == RayAt(ray, t)
        xy == CASE self.plane = "XY" -> <<point[1], point[2]>>
                [] self.plane = "YZ" -> <<point[2], point[3]>>
                [] self.plane = "ZX" -> <<point[3], point[1]>>
        uv == <<FDiv(FSub(xy[1], self.min[1]), FSub(self.max[1], self.min[1])),
                FDiv(FSub(xy[2], self.min[2]), FSub(self.max[2], self.min[2]))>>
        outward_normal ==
              CASE self.plane = "XY" -> <<0, 0, Unit>>
                [] self.plane = "YZ" -> <<Unit, 0, 0>>
                [] self.plane = "ZX" -> <<0, Unit, 0>>
        fn == compute_face_normal(ray, outward_normal)
    IN  IF FLt(t, t_min) \/ FGt(t, t_max) THEN None
        ELSE IF FLt(xy[1], self.min[1]) \/ FLt(xy[2], self.min[2])
                \/ FGt(xy[1], self.max[1]) \/ FGt(xy[2], self.max[2])
             THEN None
        ELSE Some(HitRecord(t, point, fn.normal, uv, fn.face, self.material))

\* let epsilon = 0.0001: the smallest positive step of the model.
epsilon == 1

RectBoundingBox(self) ==
    LET lo == <<self.min[1], self.min[2], FSub(self.k, epsilon)>>
        hi == <<self.max[1], self.max[2], FAdd(self.k, epsilon)>>
        swizzle(v) == CASE self.plane = "XY" -> <<v[1], v[2], v[3]>>
                        [] self.plane = "YZ" -> <<v[2], v[3], v[1]>>
                        [] self.plane = "ZX" -> <<v[3], v[1], v[2]>>
    IN  Some(Aabb(swizzle(lo), swizzle(hi)))

\* Iterator::min_by over all the hits, had is_finite not filtered them.
RECURSIVE MinBy_unfiltered(_, _)
MinBy_unfiltered(hits, best) ==
    IF hits = <<>> THEN best
    ELSE LET h == Head(hits)
         IN  IF ~h.some THEN MinBy_unfiltered(Tail(hits), best)
             ELSE IF ~best.some \/ FLt(h.val.t, best.val.t)
                  THEN MinBy_unfiltered(Tail(hits), h)
             ELSE MinBy_unfiltered(Tail(hits), best)

\* Iterator::min_by over the finite hits: the first of the minimal ones.
RECURSIVE MinBy(_, _)
MinBy(hits, best) ==
    IF hits = <<>> THEN best
    ELSE LET h == Head(hits)
         IN  IF ~h.some \/ ~IsFinite(h.val.t) THEN MinBy(Tail(hits), best)
             ELSE IF ~best.some \/ h.val.t < best.val.t
                  THEN MinBy(Tail(hits), h)
             ELSE MinBy(Tail(hits), best)

RECURSIVE Hit(_, _, _, _)
RECURSIVE BoundingBox(_, _, _)

\* <[T] as Hittable>::hit
ListHit(objects, ray, t_min, t_max) ==
    MinBy([i \in 1..Len(objects) |-> Hit(objects[i], ray, t_min, t_max)], None)

\* <[T] as Hittable>::bounding_box
RECURSIVE ListBoxFrom(_, _, _, _)
ListBoxFrom(acc, rest, start_time, end_time) ==
    IF rest = <<>> THEN Some(acc)
    ELSE LET b == BoundingBox(Head(rest), start_time, end_time)
         IN  IF ~b.some THEN None
             ELSE ListBoxFrom(union(acc, b.val), Tail(rest), start_time, end_time)

\* A bounding_box that stops at the first member.
ListBoundingBox_first(objects, start_time, end_time) ==
    IF objects = <<>> THEN None
    ELSE BoundingBox(Head(objects), start_time, end_time)

ListBoundingBox(objects, start_time, end_time) ==
    IF objects = <<>> THEN None
    ELSE LET first == BoundingBox(Head(objects), start_time, end_time)
         IN  IF ~first.some THEN None
             ELSE ListBoxFrom(first.val, Tail(objects), start_time, end_time)

\* A Moving::hit that leaves the point in the inner object's frame.
MovingHit_unshifted(self, ray, t_min, t_max) ==
    LET shift     == VScale(self.velocity, ray.time)
        inner_ray == Ray(VSub(ray.origin, shift), ray.direction, ray.time)
    IN  Hit(self.inner, inner_ray, t_min, t_max)

\* <Moving as Hittable>::hit
MovingHit(self, ray, t_min, t_max) ==
    LET shift     == VScale(self.velocity, ray.time)
        inner_ray == Ray(VSub(ray.origin, shift), ray.direction, ray.time)
        hit       == Hit(self.inner, inner_ray, t_min, t_max)
    IN  IF ~hit.some THEN None
        ELSE Some([hit.val EXCEPT !.point = VAdd(hit.val.point, shift)])

MovingBoundingBox(self, start_time, end_time) ==
    LET inner_box == BoundingBox(self.inner, start_time, end_time)
    IN  IF ~inner_box.some THEN None
        ELSE LET start_box == offset(inner_box.val, VScale(self.velocity, start_time))
                 end_box   == offset(inner_box.val, VScale(self.velocity, end_time))
             IN  Some(union(start_box, end_box))

\* <BvhNode as Hittable>::hit
BvhHit(self, ray, t_min, t_max) ==
    IF ~is_hit_by(self.bounding_box, ray, t_min, t_max) THEN None
    ELSE LET left_hit    == Hit(self.left, ray, t_min, t_max)
             upper_bound == IF left_hit.some THEN FMin(left_hit.val.t, t_max)
                            ELSE t_max
             right_hit   == Hit(self.right, ray, t_min, upper_bound)
         IN  IF right_hit.some THEN right_hit ELSE left_hit

\* Hittable::hit, dispatched on the type of the object.
Hit(obj, ray, t_min, t_max) ==
    CASE obj.kind = "Sphere"  -> SphereHit(obj, ray, t_min, t_max)
      [] obj.kind = "Rect"    -> RectHit(obj, ray, t_min, t_max)
      [] obj.kind = "Moving"  -> MovingHit(obj, ray, t_min, t_max)
      [] obj.kind = "BvhNode" -> BvhHit(obj, ray, t_min, t_max)
      [] obj.kind = "World"   -> ListHit(obj.objects, ray, t_min, t_max)

\* Hittable::bounding_box, dispatched on the type of the object.
BoundingBox(obj, start_time, end_time) ==
    CASE obj.kind = "Sphere"  -> SphereBoundingBox(obj)
      [] obj.kind = "Rect"    -> RectBoundingBox(obj)
      [] obj.kind = "Moving"  -> MovingBoundingBox(obj, start_time, end_time)
      [] obj.kind = "BvhNode" -> Some(obj.bounding_box)
      [] obj.kind = "World"   -> ListBoundingBox(obj.objects, start_time, end_time)

\* The key of list.sort_by in BvhNode::new: box.minimum[axis] (unwrap).
SortKey(obj, axis, start_time, end_time) ==
    BoundingBox(obj, start_time, end_time).val.minimum[axis + 1]

\* slice::sort_by is a stable sort: insertion after the last key <= the new one.
RECURSIVE InsertSorted(_, _, _, _, _)
InsertSorted(sorted, obj, axis, start_time, end_time) ==
    IF sorted = <<>> THEN <<obj>>
    ELSE LET last == sorted[Len(sorted)]
         IN  IF TotalLe(SortKey(last, axis, start_time, end_time),
                        SortKey(obj, axis, start_time, end_time))
             THEN Append(sorted, obj)
             ELSE Append(InsertSorted(SubSeq(sorted, 1, Len(sorted) - 1), obj,
                                      axis, start_time, end_time), last)

\* A sort that loses objects: every place gets the first object.
SortBy_losing(list, axis, start_time, end_time) ==
    [i \in 1..Len(list) |-> list[1]]

RECURSIVE SortBy(_, _, _, _)
SortBy(list, axis, start_time, end_time) ==
    IF list = <<>> THEN <<>>
    ELSE InsertSorted(SortBy(SubSeq(list, 1, Len(list) - 1), axis,
                             start_time, end_time),
                      list[Len(list)], axis, start_time, end_time)

\* BvhNode::new on a non-empty list.  rnd is the stream of axes that
\* rand::thread_rng().gen_range(0..3) returns; the result carries the node,
\* the list as the in-place sorts leave it, and the rest of the stream.
RECURSIVE BvhNew(_, _, _, _)
BvhNew(list, rnd, start_time, end_time) ==
    LET axis   == Head(rnd)
        sorted == SortBy(list, axis, start_time, end_time)
        n      == Len(sorted)
        mk(left, right) ==
            BvhNode(left, right,
                    union(BoundingBox(left, start_time, end_time).val,
                          BoundingBox(right, start_time, end_time).val))
    IN  IF n = 1
        THEN [node |-> mk(sorted[1], sorted[1]), list |-> sorted, rnd |-> Tail(rnd)]
        ELSE IF n = 2
        THEN [node |-> mk(sorted[1], sorted[2]), list |-> sorted, rnd |-> Tail(rnd)]
        ELSE LET mid == n \div 2
                 a == BvhNew(SubSeq(sorted, 1, mid), Tail(rnd), start_time, end_time)
                 b == BvhNew(SubSeq(sorted, mid + 1, n), a.rnd, start_time, end_time)
             IN  [node |-> mk(a.node, b.node), list |-> a.list \o b.list,
                  rnd |-> b.rnd]


(***************************************************************************)
(* texture.rs                                                              *)
(***************************************************************************)
Solid(color) == [kind |-> "Solid", color |-> color]

\* An Image texture over a GenericImageView of the given dimensions whose
\* pixels[y][x] is the RGB triple of integer channel values in 0..max_value.
Image(width, height, pixels, max_value) ==
    [kind |-> "Image", width |-> width, height |-> height, pixels |-> pixels,
     max_value |-> max_value]

\* `as u32` of an f64 count of quanta: truncation, saturating at 0, NaN to 0.
AsU32(x) == IF IsNaN(x) \/ x < 0 THEN 0 ELSE x \div Unit

\* u32/u8 `as f64`.
ToF64(n) == Rnd(n * Unit)

\* Texture::value
TextureValue(tex, uv, point) ==
    IF tex.kind = "Solid" THEN tex.color
    ELSE LET dims  == <<ToF64(tex.width), ToF64(tex.height)>>
             hi    == <<ToF64(tex.width - 1), ToF64(tex.height - 1)>>
             px    == AsU32(FMin(FMax(FMul(uv[1], dims[1]), 0), hi[1]))
             py    == AsU32(FMin(FMax(FMul(uv[2], dims[2]), 0), hi[2]))
             pixel == tex.pixels[py + 1][px + 1]
             min   == ToF64(0)
             max   == ToF64(tex.max_value)
         IN  [c \in 1..3 |->
                 FDiv(FSub(ToF64(pixel[c]), min), FSub(max, min))]

(***************************************************************************)
(* material.rs                                                             *)
(***************************************************************************)
Lambertian(albedo) == [kind |-> "Lambertian", albedo |-> albedo]
Metal(albedo, fuzz) == [kind |-> "Metal", albedo |-> albedo, fuzz |-> fuzz]
Dielectric(ir) == [kind |-> "Dielectric", ir |-> ir]
DiffuseLight(emit) == [kind |-> "DiffuseLight", emit |-> emit]
\* A material held through a shared handle, Arc<M>, or a reference, &M.
ArcOf(inner) == [kind |-> "Arc", inner |-> inner]
RefOf(inner) == [kind |-> "Ref", inner |-> inner]

ZERO == <<0, 0, 0>>
ONE == <<Unit, Unit, Unit>>

\* A scatter that aborts the thread (a panic), as opposed to None.
Panic == [some |-> FALSE, panic |-> TRUE]
IsPanic(outcome) == "panic" \in DOMAIN outcome

Scatter(ray, attenuation) == [ray |-> ray, attenuation |-> attenuation]

\* let eps = 1.0e-8: the smallest positive step of the model.
near_zero_eps == 1

is_near_zero(v) ==
    \A k \in 1..3 : FLt(Abs(v[k]), near_zero_eps)

\* DVec3 * DVec3 and f64 * DVec3
VMul(u, v) == <<FMul(u[1], v[1]), FMul(u[2], v[2]), FMul(u[3], v[3])>>

\* DVec3::length and DVec3::normalize: self * (1.0 / self.length())
Length(v) == FSqrt(LengthSquared(v))
Normalize(v) == VScale(v, FDiv(Unit, Length(v)))

reflect(incident, normal) ==
    VSub(incident, VScale(normal, FMul(2 * Unit, VDot(incident, normal))))

refract(incident, normal, ir_ratio) ==
    LET cos    == FMin(VDot(normal, VNeg(incident)), Unit)
        r_perp == VScale(VAdd(incident, VScale(normal, cos)), ir_ratio)
        r_par  == VScale(normal,
                         FNeg(FSqrt(FAbs(FSub(Unit, LengthSquared(r_perp))))))
    IN  VAdd(r_perp, r_par)

\* f64::powi(x, 5), as repeated multiplication
Powi5(x) == FMul(FMul(FMul(FMul(x, x), x), x), x)

\* reflectance: Schlick's approximation
reflectance(cos, ir_ratio) ==
    LET r0a == FDiv(FSub(Unit, ir_ratio), FAdd(Unit, ir_ratio))
        r0  == FMul(r0a, r0a)
    IN  FAdd(r0, FMul(FSub(Unit, r0), Powi5(FSub(Unit, cos))))

\* Rng::gen_bool(p) panics unless 0 <= p <= 1; draw is the value the
\* generator would give for a probability strictly between 0 and 1.
GenBoolPanics(p) == ~(FLe(0, p) /\ FLe(p, Unit))
GenBool(p, draw) == IF p = 0 THEN FALSE ELSE IF p = Unit THEN TRUE ELSE draw

\* The values the random source gives to one scatter call:
\* rnd.on_sphere for random_on_unit_sphere, rnd.in_sphere for
\* random_in_unit_sphere, rnd.bool for gen_bool.
LambertianScatter(self, ray, hit, rnd) ==
    LET sum       == VAdd(hit.normal, rnd.on_sphere)
        direction == IF is_near_zero(sum) THEN hit.normal ELSE sum
    IN  Some(Scatter(Ray(hit.point, direction, ray.time),
                     TextureValue(self.albedo, hit.uv, hit.point)))

MetalScatter(self, ray, hit, rnd) ==
    LET reflected == VAdd(reflect(Normalize(ray.direction), hit.normal),
                          VScale(rnd.in_sphere, self.fuzz))
    IN  IF FGt(VDot(reflected, hit.normal), 0)
        THEN Some(Scatter(Ray(hit.point, reflected, ray.time), self.albedo))
        ELSE None

DielectricScatter(self, ray, hit, rnd) ==
    LET ir_ratio == IF hit.face = "Front" THEN FDiv(Unit, self.ir) ELSE self.ir
        unit_direction == Normalize(ray.direction)
        cos == FMin(VDot(hit.normal, VNeg(unit_direction)), Unit)
        sin == FSqrt(FSub(Unit, FMul(cos, cos)))
        total_internal == FGt(FMul(sin, ir_ratio), Unit)
        p == reflectance(cos, ir_ratio)
        direction ==
            IF total_internal \/ GenBool(p, rnd.bool)
            THEN reflect(ray.direction, hit.normal)
            ELSE refract(unit_direction, hit.normal, ir_ratio)
    IN  IF ~total_internal /\ GenBoolPanics(p) THEN Panic
        ELSE Some(Scatter(Ray(hit.point, direction, ray.time), ONE))

DiffuseLightScatter(self, ray, hit, rnd) == None

\* Material::scatter, dispatched on the type; Arc<M> and &M forward to M.
RECURSIVE MaterialScatter(_, _, _, _)
MaterialScatter(self, ray, hit, rnd) ==
    CASE self.kind = "Lambertian"   -> LambertianScatter(self, ray, hit, rnd)
      [] self.kind = "Metal"        -> MetalScatter(self, ray, hit, rnd)
      [] self.kind = "Dielectric"   -> DielectricScatter(self, ray, hit, rnd)
      [] self.kind = "DiffuseLight" -> DiffuseLightScatter(self, ray, hit, rnd)
      [] self.kind \in {"Arc", "Ref"} -> MaterialScatter(self.inner, ray, hit, rnd)

\* A DiffuseLight that keeps the trait's default emitted.
DiffuseLightEmitted_default(self, uv, point) == ZERO

\* DiffuseLight::emitted
DiffuseLightEmitted(self, uv, point) == TextureValue(self.emit, uv, point)

\* The default body of Material::emitted
DefaultEmitted(self, uv, point) == ZERO

\* Material::emitted, dispatched on the type: only DiffuseLight overrides the
\* default; the impls for Arc<M> and &M define scatter alone.
MaterialEmitted(self, uv, point) ==
    IF self.kind = "DiffuseLight" THEN DiffuseLightEmitted(self, uv, point)
    ELSE DefaultEmitted(self, uv, point)

(***************************************************************************)
(* The scenes and queries of the geometry specification.                   *)
(***************************************************************************)
\* The longest object list.
MaxObjects == 2

\* BvhNode::new(&mut objects, 0.0, camera_desc.shutter_time)
StartTime == 0
EndTime == Unit

\* world.hit(&ray, 0.001, f64::INFINITY): 0.001 is the smallest positive step.
TMin == 1

\* The speed that carries the moving sphere over 2^Prec in one shutter time.
Far == (2 ^ Prec) * Unit

White == <<Unit, Unit, Unit>>
Gray == <<Half, Half, Half>>

\* The objects a scene is built from.
Catalog ==
    << Sphere(<<0, 0, 0>>, Unit, Metal(Gray, Unit)),
       Sphere(<<0, 0, 0>>, 0 - Half, Dielectric(Unit + Half)),
       Rect("XY", <<0 - Unit, 0 - Unit>>, <<2 * Unit, Unit>>, 0,
            DiffuseLight(Solid(White))),
       Moving(<<Far, 0, 0>>,
              Sphere(<<0 - Far, 0, 0>>, Unit, Lambertian(Solid(Gray)))) >>

Origins == { <<x, 0, z>> : x \in {0 - Unit, 0}, z \in {0 - 2 * Unit, 0, Unit} }
Directions ==
    { <<dx, dy, dz>> : dx \in {0, Unit}, dy \in {0, Unit},
                       dz \in {0 - Unit, 0, Unit} } \ { <<0, 0, 0>> }
Times == {StartTime, EndTime}
Intervals == { <<TMin, PInf>>, <<TMin, Unit>> }

\* The number of nodes BvhNode::new makes for a list of n objects.
RECURSIVE NodeCount(_)
NodeCount(n) == IF n <= 2 THEN 1
                ELSE 1 + NodeCount(n \div 2) + NodeCount(n - n \div 2)

VARIABLES
    objects,        \* the object list (World.objects, the list given to BvhNode::new)
    bvh,            \* Option<BvhNode>: the tree built from objects
    query,          \* Option of the ray and interval of the last hit query
    member_hits,    \* what each object of the list returned for the query
    list_hit,       \* what the list (World) returned
    bvh_hit,        \* what the BvhNode returned
    pc,             \* "scene", "built" or "queried"
    m_call,         \* Option of the arguments of the last Material call
    m_scatter,      \* what Material::scatter returned (or Panic)
    m_emitted,      \* Option of what Material::emitted returned
    i_pc,           \* ray_color: "idle", "loop", "broke", "done" or "panicked"
    i_world,        \* ray_color's world
    i_depth,        \* ray_color's depth argument
    i_left,         \* iterations of `for _ in 0..depth` still to run
    i_ray,          \* ray_color's local `ray`
    i_color,        \* ray_color's local `color`
    i_hit,          \* what world.hit returned in the last iteration
    i_scatter,      \* `maybe_scatter` of the last iteration
    i_result,       \* Option of the value ray_color returned
    r_pc,           \* main: "idle", "ready" (scene chosen) or "seeded"
    r_scene,        \* the objects of the scene and the pixel that is rendered
    r_rng,          \* Option of the state thread_rng() was seeded with
    r_runs,         \* what each finished run of main drew and wrote
    c_call,         \* Option of the function called on its own and its arguments
    c_result,       \* what that call returned
    n_pc,           \* BvhNode::new: "idle", "running", "returned" or "overflowed"
    n_stack,        \* the sublists of the calls of BvhNode::new still to run
    p_perlin,       \* Option<Perlin>: what Perlin::new built
    p_idx,          \* Option of the cell index given to int_noise
    p_sample        \* what int_noise returned: the ranvec index and the vector

geometry_vars == <<objects, bvh, query, member_hits, list_hit, bvh_hit, pc>>
material_vars == <<m_call, m_scatter, m_emitted>>
integrator_vars ==
    <<i_pc, i_world, i_depth, i_left, i_ray, i_color, i_hit, i_scatter, i_result>>

render_vars == <<r_pc, r_scene, r_rng, r_runs>>
call_vars == <<c_call, c_result>>
new_vars == <<n_pc, n_stack>>
perlin_vars == <<p_perlin, p_idx, p_sample>>

vars == <<geometry_vars, material_vars, integrator_vars, render_vars, call_vars, new_vars, perlin_vars>>

Init ==
    /\ objects = <<>>
    /\ bvh = None
    /\ query = None
    /\ member_hits = <<>>
    /\ list_hit = None
    /\ bvh_hit = None
    /\ pc = "scene"
    /\ m_call = None
    /\ m_scatter = None
    /\ m_emitted = None
    /\ i_pc = "idle"
    /\ i_world = World(<<>>)
    /\ i_depth = 0
    /\ i_left = 0
    /\ i_ray = None
    /\ i_color = ONE
    /\ i_hit = None
    /\ i_scatter = None
    /\ i_result = None
    /\ r_pc = "idle"
    /\ r_scene = None
    /\ r_rng = None
    /\ r_runs = <<>>
    /\ c_call = None
    /\ c_result = None
    /\ n_pc = "idle"
    /\ n_stack = <<>>
    /\ p_perlin = None
    /\ p_idx = None
    /\ p_sample = None

\* World::add / Vec::push of the i-th object of the catalog.
Add(i) ==
    /\ pc = "scene"
    /\ Len(objects) < MaxObjects
    /\ \A j \in 1..Len(objects) : objects[j] # Catalog[i]
    /\ objects' = Append(objects, Catalog[i])
    /\ UNCHANGED <<bvh, query, member_hits, list_hit, bvh_hit, pc>>
    /\ UNCHANGED <<material_vars, integrator_vars, render_vars, call_vars, new_vars, perlin_vars>>

\* The ground and the centre sphere of ch10, as ch10 adds them.
Ch10Ground ==
    Sphere(<<0, 0 - (100 * Unit + Half), 0 - Unit>>, 100 * Unit,
           Lambertian(Solid(<<Rnd((4 * Unit) \div 5), Rnd((4 * Unit) \div 5), 0>>)))
Ch10Center ==
    Sphere(<<0, 0, 0 - Unit>>, Half,
           Lambertian(Solid(<<Unit \div 8, Unit \div 4, Half>>)))

\* let mut world = World::new(); world.add(ground sphere); world.add(centre)
Ch10 ==
    /\ pc = "scene"
    /\ objects = <<>>
    /\ objects' = <<Ch10Ground, Ch10Center>>
    /\ UNCHANGED <<bvh, query, member_hits, list_hit, bvh_hit, pc>>
    /\ UNCHANGED <<material_vars, integrator_vars, render_vars, call_vars, new_vars, perlin_vars>>

\* BvhNode::new(&mut objects, 0.0, shutter_time) with the axes rnd.
Build(rnd) ==
    /\ pc = "scene"
    /\ objects # <<>>
    /\ LET built == BvhNew(objects, rnd, StartTime, EndTime)
       IN  /\ objects' = built.list
           /\ bvh' = Some(built.node)
    /\ pc' = "built"
    /\ UNCHANGED <<query, member_hits, list_hit, bvh_hit>>
    /\ UNCHANGED <<material_vars, integrator_vars, render_vars, call_vars, new_vars, perlin_vars>>

\* One ray tested against every object, the list and the tree.
HitQuery(ray, t_min, t_max) ==
    /\ pc = "built"
    /\ query' = Some([ray |-> ray, t_min |-> t_min, t_max |-> t_max])
    /\ member_hits' = [i \in 1..Len(objects) |-> Hit(objects[i], ray, t_min, t_max)]
    /\ list_hit' = Hit(World(objects), ray, t_min, t_max)
    /\ bvh_hit' = Hit(bvh.val, ray, t_min, t_max)
    /\ pc' = "queried"
    /\ UNCHANGED <<objects, bvh>>
    /\ UNCHANGED <<material_vars, integrator_vars, render_vars, call_vars, new_vars, perlin_vars>>

Next ==
    \/ \E i \in 1..Len(Catalog) : Add(i)
    \/ Ch10
    \/ \E rnd \in [1..NodeCount(Len(objects)) -> 0..2] : Build(rnd)
    \/ \E o \in Origins, d \in Directions, tm \in Times, iv \in Intervals :
           HitQuery(Ray(o, d, tm), iv[1], iv[2])

Spec == Init /\ [][Next]_vars


(***************************************************************************)
(* Properties of the hit queries.                                          *)
(***************************************************************************)
Queried == pc = "queried"
TheRay == query.val.ray

\* Every record the last query produced: the members', the list's, the tree's.
AllHits == member_hits \o <<list_hit, bvh_hit>>

InInterval(h) ==
    IsFinite(h.t) /\ Contains(query.val.t_min, query.val.t_max, h.t)

\* The t of the members' finite hits.
FiniteTs ==
    { member_hits[i].val.t : i \in { j \in 1..Len(member_hits) :
          member_hits[j].some /\ IsFinite(member_hits[j].val.t) } }

\* C1: for every object list, every tree BvhNode::new builds from it, every
\* ray and interval, BvhNode::hit returns a hit exactly when the linear scan
\* over the list returns one, and both have the same t: the minimum finite t
\* of the objects' hits.
C1_BvhMatchesLinearScan ==
    Queried =>
        /\ bvh_hit.some <=> list_hit.some
        /\ list_hit.some <=> FiniteTs # {}
        /\ list_hit.some =>
              /\ list_hit.val.t \in FiniteTs
              /\ \A t \in FiniteTs : list_hit.val.t <= t
        /\ (bvh_hit.some /\ list_hit.some) => bvh_hit.val.t = list_hit.val.t

\* C2: a record returned by hit(ray, t_min, t_max) of any Hittable has a
\* finite t with t_min <= t <= t_max, also when a direction component is 0.
C2_HitsFiniteAndInInterval ==
    Queried =>
        \A i \in 1..Len(AllHits) : AllHits[i].some => InInterval(AllHits[i].val)

\* The outward normal Sphere::hit and Rect::hit compute for a record.
OutwardNormal(obj, h) ==
    IF obj.kind = "Sphere" THEN VDivS(VSub(h.point, obj.center), obj.radius)
    ELSE CASE obj.plane = "XY" -> <<0, 0, Unit>>
           [] obj.plane = "YZ" -> <<Unit, 0, 0>>
           [] obj.plane = "ZX" -> <<0, Unit, 0>>

\* C3: for every reported hit, hit.normal . ray.direction <= 0; the face is
\* Front exactly when the outward normal opposes the ray (and is kept), and
\* Back when it was negated.
C3_NormalOpposesRay ==
    Queried =>
        /\ \A i \in 1..Len(AllHits) : AllHits[i].some =>
              FLe(VDot(AllHits[i].val.normal, TheRay.direction), 0)
        /\ \A i \in 1..Len(objects) :
              (member_hits[i].some /\ objects[i].kind \in {"Sphere", "Rect"}) =>
                 LET h  == member_hits[i].val
                     on == OutwardNormal(objects[i], h)
                 IN  /\ h.face = "Front" <=> FLt(VDot(TheRay.direction, on), 0)
                     /\ h.face = "Front" => h.normal = on
                     /\ h.face = "Back" => h.normal = VNeg(on)

\* C3's case: a sphere of negative radius struck on its back face and a
\* rectangle struck on its front face by the same ray.
C3_Witness ==
    /\ Queried
    /\ \E i \in 1..Len(objects) :
          /\ objects[i].kind = "Sphere" /\ objects[i].radius < 0
          /\ member_hits[i].some /\ member_hits[i].val.face = "Back"
          /\ FLt(VDot(member_hits[i].val.normal, TheRay.direction), 0)
    /\ \E i \in 1..Len(objects) :
          /\ objects[i].kind = "Rect"
          /\ member_hits[i].some /\ member_hits[i].val.face = "Front"

\* C4 as stated: for every reported hit, ray.at(hit.t) is hit.point for the
\* ray the caller gave, for Sphere, Rect, Moving, the list and BvhNode.
C4_PointIsRayAtT ==
    Queried =>
        \A i \in 1..Len(AllHits) : AllHits[i].some =>
            AllHits[i].val.point = RayAt(TheRay, AllHits[i].val.t)

\* What each type puts in the point of a record with parameter h.t.
PointOf(obj, ray, h) ==
    IF obj.kind = "Moving"
    THEN LET shift     == VScale(obj.velocity, ray.time)
             inner_ray == Ray(VSub(ray.origin, shift), ray.direction, ray.time)
         IN  VAdd(RayAt(inner_ray, h.t), shift)
    ELSE RayAt(ray, h.t)

MaterialOf(obj) == IF obj.kind = "Moving" THEN obj.inner.material ELSE obj.material

\* C4, amended: Sphere and Rect report exactly ray.at(hit.t); Moving reports
\* inner_ray.at(hit.t) + velocity * ray.time with inner_ray.origin =
\* ray.origin - velocity * ray.time (equal to ray.at(hit.t) only up to
\* rounding); the list returns a member's record unchanged and the tree a
\* record of one of its objects.
C4_PointPerType ==
    Queried =>
        /\ \A i \in 1..Len(objects) : member_hits[i].some =>
              member_hits[i].val.point = PointOf(objects[i], TheRay, member_hits[i].val)
        /\ list_hit.some => \E i \in 1..Len(objects) : member_hits[i] = list_hit
        /\ bvh_hit.some => \E i \in 1..Len(objects) :
              /\ bvh_hit.val.material = MaterialOf(objects[i])
              /\ bvh_hit.val.point = PointOf(objects[i], TheRay, bvh_hit.val)

\* C4's case: the moving sphere is hit at a point that is not ray.at(hit.t),
\* while a sphere or rectangle of the same list is hit at ray.at(hit.t).
C4_Witness ==
    /\ Queried
    /\ \E i \in 1..Len(objects) :
          /\ objects[i].kind = "Moving" /\ member_hits[i].some
          /\ member_hits[i].val.point # RayAt(TheRay, member_hits[i].val.t)
    /\ \E i \in 1..Len(objects) :
          /\ objects[i].kind # "Moving" /\ member_hits[i].some
          /\ IsFinite(member_hits[i].val.t)
    /\ bvh_hit.some

ObjectBox(i) == BoundingBox(objects[i], StartTime, EndTime).val

Ordered(box) == \A k \in 1..3 : FLe(box.minimum[k], box.maximum[k])

\* C5: every Aabb that bounding_box, union and offset produce has
\* minimum <= maximum in each component, negative sphere radius included.
C5_BoxMinBelowMax ==
    /\ \A i \in 1..Len(objects) : Ordered(ObjectBox(i))
    /\ bvh.some => Ordered(bvh.val.bounding_box)

Inside(inner, outer) ==
    \A k \in 1..3 : /\ FLe(outer.minimum[k], inner.minimum[k])
                    /\ FLe(inner.maximum[k], outer.maximum[k])

\* C6: union(a, b) contains a and b, and is the componentwise min of the
\* minima and max of the maxima: for the boxes of any two objects of the
\* list, and for the box BvhNode::new stores from its children's boxes.
C6_UnionContainsBoth ==
    /\ \A i, j \in 1..Len(objects) :
          LET a == ObjectBox(i)
              b == ObjectBox(j)
              u == union(a, b)
          IN  /\ Inside(a, u) /\ Inside(b, u)
              /\ \A k \in 1..3 :
                    /\ u.minimum[k] \in {a.minimum[k], b.minimum[k]}
                    /\ u.maximum[k] \in {a.maximum[k], b.maximum[k]}
    /\ bvh.some =>
          /\ Inside(BoundingBox(bvh.val.left, StartTime, EndTime).val,
                    bvh.val.bounding_box)
          /\ Inside(BoundingBox(bvh.val.right, StartTime, EndTime).val,
                    bvh.val.bounding_box)

\* C6's case: a tree whose root box is the union of two different boxes,
\* neither of which contains the other.
C6_Witness ==
    /\ bvh.some
    /\ LET a == BoundingBox(bvh.val.left, StartTime, EndTime).val
           b == BoundingBox(bvh.val.right, StartTime, EndTime).val
       IN  /\ bvh.val.bounding_box = union(a, b)
           /\ ~Inside(a, b) /\ ~Inside(b, a)


(***************************************************************************)
(* The calls of Material::scatter and Material::emitted.                   *)
(***************************************************************************)
\* simple_light's lamp and the Cornell box's.
LampColor == <<4 * Unit, 4 * Unit, 4 * Unit>>
BoxLampColor == <<15 * Unit, 15 * Unit, 15 * Unit>>

\* A 2 x 2 RGB image of 8-bit channels.
Pixels ==
    << << <<0, 0, 0>>, <<255, 0, 0>> >>,
       << <<0, 255, 0>>, <<255, 255, 255>> >> >>
Picture == Image(2, 2, Pixels, 255)

Materials ==
    { Lambertian(Solid(Gray)), Lambertian(Picture),
      Metal(Gray, Unit), Metal(White, 0),
      Dielectric(Unit + Half),
      DiffuseLight(Solid(LampColor)), DiffuseLight(Picture),
      ArcOf(DiffuseLight(Solid(BoxLampColor))), ArcOf(Lambertian(Solid(Gray))),
      RefOf(Dielectric(Unit + Half)), RefOf(Metal(Gray, Unit)) }

\* The shapes a material is put on: a sphere, a sphere of negative radius
\* and a rectangle.
Shapes(material) ==
    { Sphere(<<0, 0, 0>>, Unit, material),
      Sphere(<<0, 0, 0>>, 0 - Half, material),
      Rect("XY", <<0 - Unit, 0 - Unit>>, <<2 * Unit, Unit>>, 0, material) }

\* What the random source may give to one scatter call.
RndDraws ==
    { [on_sphere |-> u, in_sphere |-> w, bool |-> b] :
          u \in { <<0, Unit, 0>>, <<0, 0, Unit>>, <<0, 0, 0 - Unit>> },
          w \in { <<0, 0, 0>>, <<0, 0, 0 - Half>> },
          b \in BOOLEAN }

\* The rays the shapes are probed with: those of the geometry queries, and
\* one that grazes the unit sphere, from (-17/16, 3/16, -2) along (7, 4, 10).
GrazingRay ==
    Ray(<<0 - 17 * (Unit \div 16), 3 * (Unit \div 16), 0 - 2 * Unit>>,
        <<7 * (Unit \div 16), 4 * (Unit \div 16), 10 * (Unit \div 16)>>,
        StartTime)
ProbeRays ==
    { Ray(o, d, StartTime) : o \in Origins, d \in Directions } \cup {GrazingRay}

UVs == { <<0, 0>>, <<Half, Half>>, <<Unit, Unit>>, <<2 * Unit, 0 - Unit>>,
         <<NaN, Half>> }
Points == { <<0, 0, 0>>, <<Unit, 0, 0 - Unit>> }

\* material.scatter(&ray, &hit) for a record that hit() of a shape returned.
ScatterCall(material, shape, ray, rnd) ==
    /\ LET hit == Hit(shape, ray, TMin, PInf)
       IN  /\ hit.some
           /\ m_call' = Some([op |-> "scatter", material |-> material,
                              ray |-> ray, hit |-> hit.val, rnd |-> rnd])
           /\ m_scatter' = MaterialScatter(material, ray, hit.val, rnd)
    /\ UNCHANGED <<m_emitted, geometry_vars, integrator_vars, render_vars, call_vars, new_vars, perlin_vars>>

\* material.emitted(uv, point)
EmittedCall(material, uv, point) ==
    /\ m_call' = Some([op |-> "emitted", material |-> material,
                       uv |-> uv, point |-> point])
    /\ m_emitted' = Some(MaterialEmitted(material, uv, point))
    /\ UNCHANGED <<m_scatter, geometry_vars, integrator_vars, render_vars, call_vars, new_vars, perlin_vars>>

\* One call is made of a material, on which the behaviour ends.
MaterialNext ==
    \/ /\ ~m_call.some
       /\ \E material \in Materials, ray \in ProbeRays, rnd \in RndDraws :
               \E shape \in Shapes(material) :
                   ScatterCall(material, shape, ray, rnd)
    \/ /\ ~m_call.some
       /\ \E material \in Materials, uv \in UVs, point \in Points :
               EmittedCall(material, uv, point)

MaterialSpec == Init /\ [][MaterialNext]_vars

ScatterCalled == m_call.some /\ m_call.val.op = "scatter"
EmittedCalled == m_call.some /\ m_call.val.op = "emitted"

\* C9: Dielectric::scatter returns a continuation ray from the hit point,
\* reflected or refracted, for every ray and every hit record, on Front and
\* Back faces; it never returns None, never aborts (panics), and its
\* attenuation is (1, 1, 1).
C9_DielectricAlwaysScatters ==
    (ScatterCalled /\ m_call.val.material.kind = "Dielectric") =>
        LET ray == m_call.val.ray
            hit == m_call.val.hit
            ir  == m_call.val.material.ir
            ir_ratio == IF hit.face = "Front" THEN FDiv(Unit, ir) ELSE ir
        IN  /\ ~IsPanic(m_scatter)
            /\ m_scatter.some
            /\ m_scatter.val.attenuation = <<Unit, Unit, Unit>>
            /\ m_scatter.val.ray.origin = hit.point
            /\ m_scatter.val.ray.direction \in
                  { reflect(ray.direction, hit.normal),
                    refract(Normalize(ray.direction), hit.normal, ir_ratio) }

\* C10: DiffuseLight::scatter returns None for every ray and hit;
\* DiffuseLight::emitted(uv, point) is its texture's value at uv and point;
\* Lambertian, Metal and Dielectric return zero from emitted.
C10_LightEmitsOthersDoNot ==
    /\ (ScatterCalled /\ m_call.val.material.kind = "DiffuseLight") =>
          m_scatter = None
    /\ (EmittedCalled /\ m_call.val.material.kind = "DiffuseLight") =>
          LET emit == m_call.val.material.emit
          IN  /\ m_emitted.val = TextureValue(emit, m_call.val.uv, m_call.val.point)
              /\ emit.kind = "Solid" => m_emitted.val = emit.color
    /\ (EmittedCalled /\ m_call.val.material.kind \in
                             {"Lambertian", "Metal", "Dielectric"}) =>
          m_emitted.val = <<0, 0, 0>>

\* C10's case: a DiffuseLight over an image asked for what it emits at the
\* far corner of the texture, which is the white pixel.
C10_Witness ==
    /\ EmittedCalled
    /\ m_call.val.material = DiffuseLight(Picture)
    /\ m_call.val.uv = <<Unit, Unit>>
    /\ m_emitted.val = <<Unit, Unit, Unit>>


\* The material a shared handle (Arc<M> or &M) points at.
IsHandle(material) == material.kind \in {"Arc", "Ref"}

\* C22: holding a material through a shared handle does not change its
\* behaviour: for every material M, ray, hit, uv and point, Arc<M> and &M
\* return the same scatter result and the same emitted colour as M itself;
\* in particular a DiffuseLight held as Arc<DiffuseLight> emits its
\* texture's value, not zero.
C22_HandleBehavesAsMaterial ==
    /\ (ScatterCalled /\ IsHandle(m_call.val.material)) =>
          m_scatter = MaterialScatter(m_call.val.material.inner, m_call.val.ray,
                                      m_call.val.hit, m_call.val.rnd)
    /\ (EmittedCalled /\ IsHandle(m_call.val.material)) =>
          /\ m_emitted.val = MaterialEmitted(m_call.val.material.inner,
                                             m_call.val.uv, m_call.val.point)
          /\ m_call.val.material.inner.kind = "DiffuseLight" =>
                m_emitted.val = TextureValue(m_call.val.material.inner.emit,
                                             m_call.val.uv, m_call.val.point)


(***************************************************************************)
(* main.rs: ray_color                                                      *)
(***************************************************************************)
\* The largest depth ray_color is called with.
MaxDepth == 2

\* DVec3::new(0.5, 0.7, 1.0)
SkyBlue == <<Half, RoundRat(7 * Unit, 10), Unit>>

\* let unit = ray.direction.normalize(); let t = 0.5 * (unit.y + 1.0);
\* (1.0 - t) * DVec3::new(1.0, 1.0, 1.0) + t * DVec3::new(0.5, 0.7, 1.0)
AmbientAt(t) == VAdd(VScale(ONE, FSub(Unit, t)), VScale(SkyBlue, t))
Ambient(ray) == AmbientAt(FMul(Half, FAdd(Normalize(ray.direction)[2], Unit)))

\* The worlds ray_color is given: up to MaxObjects objects of the catalog,
\* in the catalog's order.
Increasing(n) ==
    { f \in [1..n -> 1..Len(Catalog)] : \A k \in 1..(n - 1) : f[k] < f[k + 1] }
Worlds ==
    UNION { { World([k \in 1..n |-> Catalog[f[k]]]) : f \in Increasing(n) } :
            n \in 1..MaxObjects }

\* ray_color(&ray, &world, depth) up to its loop.
RayColorCall(world, ray, depth) ==
    /\ i_pc = "idle"
    /\ i_pc' = "loop"
    /\ i_world' = world
    /\ i_depth' = depth
    /\ i_left' = depth
    /\ i_ray' = Some(ray)
    /\ i_color' = ONE
    /\ UNCHANGED <<i_hit, i_scatter, i_result, geometry_vars, material_vars,
                   render_vars, call_vars, new_vars, perlin_vars>>

\* What one iteration of the loop does with maybe_scatter.
Iterated(hit, maybe_scatter) ==
    /\ i_hit' = hit
    /\ i_scatter' = maybe_scatter
    /\ IF IsPanic(maybe_scatter)
       THEN /\ i_pc' = "panicked"
            /\ UNCHANGED <<i_color, i_ray, i_left>>
       ELSE IF maybe_scatter.some
       THEN /\ i_color' = VMul(i_color, maybe_scatter.val.attenuation)
            /\ i_ray' = Some(maybe_scatter.val.ray)
            /\ i_left' = i_left - 1
            /\ i_pc' = "loop"
       ELSE /\ i_pc' = "broke"
            /\ UNCHANGED <<i_color, i_ray, i_left>>

\* world.hit(&ray, 0.001, f64::INFINITY).and_then(|hit| hit.material.scatter(..))
AndThenScatter(hit, ray, rnd) ==
    IF hit.some THEN MaterialScatter(hit.val.material, ray, hit.val, rnd)
    ELSE None

IterateWith(hit, rnd) == Iterated(hit, AndThenScatter(hit, i_ray.val, rnd))

\* One iteration of `for _ in 0..depth`, with the values rnd of the
\* random source.
Iterate(rnd) ==
    /\ i_pc = "loop"
    /\ i_left > 0
    /\ IterateWith(Hit(i_world, i_ray.val, TMin, PInf), rnd)
    /\ UNCHANGED <<i_world, i_depth, i_result, geometry_vars, material_vars,
                   render_vars, call_vars, new_vars, perlin_vars>>

\* After the loop, left by break or by exhausting the range: ambient * color.
Return ==
    /\ \/ i_pc = "broke"
       \/ i_pc = "loop" /\ i_left = 0
    /\ i_result' = Some(VMul(Ambient(i_ray.val), i_color))
    /\ i_pc' = "done"
    /\ UNCHANGED <<i_world, i_depth, i_left, i_ray, i_color, i_hit, i_scatter,
                   geometry_vars, material_vars,
                   render_vars, call_vars, new_vars, perlin_vars>>

IntegratorNext ==
    \/ /\ i_pc = "idle"
       /\ \E world \in Worlds, o \in Origins, d \in Directions, tm \in Times,
             depth \in 1..MaxDepth :
               RayColorCall(world, Ray(o, d, tm), depth)
    \/ \E rnd \in RndDraws : Iterate(rnd)
    \/ Return

IntegratorSpec == Init /\ [][IntegratorNext]_vars

Returned == i_pc = "done"

\* The last iteration saw no hit, an absorption (a hit whose material gave
\* no scatter), or a scatter.
NoHit == ~i_hit.some
Absorbed == i_hit.some /\ ~i_scatter.some
Exhausted == i_left = 0 /\ i_scatter.some

\* C7: a path that scatters at every one of its depth bounces, reaching no
\* miss and no absorption, contributes zero: ray_color returns (0, 0, 0)
\* when the depth limit is exhausted.
C7_ExhaustedPathIsBlack ==
    (Returned /\ Exhausted) => i_result.val = <<0, 0, 0>>

\* C8: ray_color's result is made bounce by bounce: a miss adds
\* attenuation * background and ends the path; a hit adds attenuation *
\* emitted and, when scatter returns nothing, ends the path with no background
\* added; only a returned scatter multiplies the attenuation and continues.
\* (A material that scatters emits nothing, so the sum over a path is the
\* term of its last bounce.)
C8_BounceAddsEmittedOrBackground ==
    (Returned /\ ~Exhausted) =>
        /\ NoHit => i_result.val = VMul(i_color, Ambient(i_ray.val))
        /\ Absorbed =>
              i_result.val =
                  VMul(i_color, MaterialEmitted(i_hit.val.material,
                                                i_hit.val.uv, i_hit.val.point))


(***************************************************************************)
(* main.rs, camera.rs: one pixel of the image, rendered by two runs.       *)
(***************************************************************************)
\* The number of states the operating system may seed thread_rng() with.
Entropies == 3

\* let image_height, image_width; let samples_per_pixel: a 2 x 2 image with
\* one sample for each pixel.
ImageSize == 2

Camera(origin, lower_left, horizontal, vertical, u, v, lens_radius) ==
    [origin |-> origin, lower_left |-> lower_left, horizontal |-> horizontal,
     vertical |-> vertical, u |-> u, v |-> v, lens_radius |-> lens_radius]

\* Camera::new for vfov 90, aspect_ratio 1, origin (0,0,0), look_at -Z,
\* vup Y, aperture 1 and no focus distance: h = 1, w = Z, u = X, v = Y.
TheCamera ==
    Camera(ZERO, <<0 - Unit, 0 - Unit, 0 - Unit>>, <<2 * Unit, 0, 0>>,
           <<0, 2 * Unit, 0>>, <<Unit, 0, 0>>, <<0, Unit, 0>>, Half)

\* Camera::get_ray once the lens offset is known.
GetRayFrom(self, u, v, lens_offset) ==
    Ray(VAdd(self.origin, lens_offset),
        VSub(VAdd(VAdd(self.lower_left, VScale(self.horizontal, u)),
                  VScale(self.vertical, v)),
             lens_offset),
        StartTime)

\* let offset = self.u * rd.x + self.v * rd.y
LensOffset(self, rd) == VAdd(VScale(self.u, rd[1]), VScale(self.v, rd[2]))

\* Camera::get_ray, with disk the value of random_in_unit_disk
get_ray(self, u, v, disk) ==
    GetRayFrom(self, u, v,
               LensOffset(self, <<FMul(self.lens_radius, disk[1]),
                                  FMul(self.lens_radius, disk[2])>>))

\* The values thread_rng() gives, in the order main asks for them, once the
\* operating system has seeded it with state e: the generator is a function
\* of its seed.
ScatterDraw(e, k) ==
    [on_sphere |-> IF (e + k) % 2 = 0 THEN <<0, Unit, 0>> ELSE <<0, 0, Unit>>,
     in_sphere |-> IF (e + k) % 3 = 0 THEN <<0, 0, 0>> ELSE <<0, 0, 0 - Half>>,
     bool |-> (e + k) % 2 = 1]
ThreadRngDraws(e) ==
    [axes |-> [k \in 1..NodeCount(MaxObjects) |-> (e + k) % 3],
     du |-> (e * (Unit \div 4)) % Unit,
     dv |-> (e * (Unit \div 2)) % Unit,
     disk |-> IF e % 2 = 0 THEN <<0, 0>> ELSE <<Half, 0 - Half>>,
     scatter |-> [k \in 1..MaxDepth |-> ScatterDraw(e, k)]]

\* ray_color as a function of its arguments and of the draws of its
\* scatter calls: Some(colour), or Panic when a scatter call aborts.
RECURSIVE RayColorLoop(_, _, _, _, _)
RECURSIVE RayColorStep(_, _, _, _, _, _)
RayColorLoop(ray, color, left, world, draws) ==
    IF left = 0 THEN Some(VMul(Ambient(ray), color))
    ELSE RayColorStep(AndThenScatter(Hit(world, ray, TMin, PInf), ray, Head(draws)),
                      ray, color, left, world, draws)
RayColorStep(maybe_scatter, ray, color, left, world, draws) ==
    IF IsPanic(maybe_scatter) THEN Panic
    ELSE IF maybe_scatter.some
    THEN RayColorLoop(maybe_scatter.val.ray,
                      VMul(color, maybe_scatter.val.attenuation),
                      left - 1, world, Tail(draws))
    ELSE Some(VMul(Ambient(ray), color))
ray_color(ray, world, depth, draws) == RayColorLoop(ray, ONE, depth, world, draws)

\* (sum / samples_per_pixel).powf(0.5) for the one sample of the pixel
PixelOf(sample) ==
    IF IsPanic(sample) THEN Panic
    ELSE Some(<<FSqrt(sample.val[1]), FSqrt(sample.val[2]), FSqrt(sample.val[3])>>)

\* The sample main takes for pixel (x, y): the jittered camera ray, traced.
SampleAt(world, x, y, draws) ==
    ray_color(get_ray(TheCamera,
                      FDiv(FAdd(ToF64(x), draws.du), ToF64(ImageSize)),
                      FDiv(FAdd(ToF64(ImageSize - 1 - y), draws.dv), ToF64(ImageSize)),
                      draws.disk),
              world, MaxDepth, draws.scatter)

\* The world of the scene: world.add(BvhNode::new(&mut objects, 0.0, shutter))
SceneWorld(scene_objects, axes) ==
    World(<<BvhNew(scene_objects, axes, StartTime, EndTime).node>>)

\* One run of main over the scene, with the draws of its generator.
RunOf(scene, draws) ==
    [draws |-> draws,
     pixel |-> PixelOf(SampleAt(SceneWorld(scene.objects, draws.axes),
                                scene.x, scene.y, draws))]

\* The scene and the pixel both runs render.
ChooseScene(world, x, y) ==
    /\ r_pc = "idle"
    /\ r_scene' = Some([objects |-> world.objects, x |-> x, y |-> y])
    /\ r_pc' = "ready"
    /\ UNCHANGED <<r_rng, r_runs, geometry_vars, material_vars, integrator_vars,
                   call_vars, new_vars, perlin_vars>>

\* A run starts: thread_rng() is seeded by the operating system; the
\* program takes no seed.
SeedThreadRng(e) ==
    /\ r_pc = "ready"
    /\ Len(r_runs) < 2
    /\ r_rng' = Some(e)
    /\ r_pc' = "seeded"
    /\ UNCHANGED <<r_scene, r_runs, geometry_vars, material_vars, integrator_vars,
                   call_vars, new_vars, perlin_vars>>

\* The run builds the scene, renders the pixel and ends.
RenderPixel ==
    /\ r_pc = "seeded"
    /\ r_runs' = Append(r_runs, RunOf(r_scene.val, ThreadRngDraws(r_rng.val)))
    /\ r_rng' = None
    /\ r_pc' = "ready"
    /\ UNCHANGED <<r_scene, geometry_vars, material_vars, integrator_vars,
                   call_vars, new_vars, perlin_vars>>

RenderNext ==
    \/ /\ r_pc = "idle"
       /\ \E world \in Worlds, x \in 0..(ImageSize - 1), y \in 0..(ImageSize - 1) :
              ChooseScene(world, x, y)
    \/ \E e \in 1..Entropies : SeedThreadRng(e)
    \/ RenderPixel

RenderSpec == Init /\ [][RenderNext]_vars

TwoRuns == Len(r_runs) = 2

DownZ == Ray(ZERO, <<0, 0, 0 - Unit>>, StartTime)
Ch10Queried ==
    /\ Queried
    /\ Len(objects) = 2
    /\ {objects[1], objects[2]} = {Ch10Ground, Ch10Center}
    /\ query.val = [ray |-> DownZ, t_min |-> TMin, t_max |-> PInf]

\* C12: in the world of the radius-0.5 sphere at (0,0,-1) and the radius-100
\* sphere at (0,-100.5,-1), the ray from the origin down -Z over
\* [0.001, infinity) hits the near sphere at t = 0.5 on its front face, and
\* does not hit the ground sphere.
C12_NearSphereHitAtHalf ==
    Ch10Queried =>
        /\ list_hit.some
        /\ list_hit.val.t = Half
        /\ list_hit.val.face = "Front"
        /\ list_hit.val.material = Ch10Center.material
        /\ list_hit.val.point = <<0, 0, 0 - Half>>
        /\ \A i \in 1..2 : objects[i] = Ch10Ground => ~member_hits[i].some
C12_Witness == Ch10Queried /\ list_hit.some /\ list_hit.val.t = Half

\* The sphere with the opposite radius at the same centre.
Negated(sphere) == Sphere(sphere.center, FNeg(sphere.radius), sphere.material)
SphereIndices == { i \in 1..Len(objects) : objects[i].kind = "Sphere" }
\* Sphere::hit of the negated sphere on the ray and interval of the query.
NegatedHit(i) ==
    SphereHit(Negated(objects[i]), TheRay, query.val.t_min, query.val.t_max)
\* ray.direction . outward_normal of the record h of objects[i]
FacingDot(i, h) == VDot(TheRay.direction, OutwardNormal(objects[i], h))
Tangent(i, h) == ~FLt(FacingDot(i, h), 0) /\ ~FGt(FacingDot(i, h), 0)

\* C13: the spheres of radius r and -r at one centre report, for the same
\* ray and interval, the same t and the same point and opposite faces.
C13_NegativeRadiusFlipsFace ==
    Queried =>
        \A i \in SphereIndices :
            /\ member_hits[i].some = NegatedHit(i).some
            /\ member_hits[i].some =>
                   /\ NegatedHit(i).val.t = member_hits[i].val.t
                   /\ NegatedHit(i).val.point = member_hits[i].val.point
                   /\ NegatedHit(i).val.face # member_hits[i].val.face

\* C13, amended: the same t and point; opposite faces when the ray is not
\* tangent at the point (ray.direction . outward_normal # 0); at a tangent
\* point both spheres report Back, since Front needs a dot product < 0.
C13_FlipsFaceUnlessTangent ==
    Queried =>
        \A i \in SphereIndices :
            /\ member_hits[i].some = NegatedHit(i).some
            /\ member_hits[i].some =>
                   /\ NegatedHit(i).val.t = member_hits[i].val.t
                   /\ NegatedHit(i).val.point = member_hits[i].val.point
                   /\ IF Tangent(i, member_hits[i].val)
                      THEN /\ member_hits[i].val.face = "Back"
                           /\ NegatedHit(i).val.face = "Back"
                      ELSE NegatedHit(i).val.face # member_hits[i].val.face
C13_Witness ==
    /\ Queried
    /\ \E i \in SphereIndices :
           /\ member_hits[i].some
           /\ member_hits[i].val.face = "Front"
           /\ NegatedHit(i).val.face = "Back"
           /\ ~Tangent(i, member_hits[i].val)

(***************************************************************************)
(* hittable.rs: the functions of the contract called on their own.         *)
(***************************************************************************)
\* The longest list given to <[T] as Hittable>::bounding_box.
MaxList == 3

\* The longest list given to BvhNode::new.
MaxBuild == 5
\* The objects the lists are taken from, all with a bounding box.
Pool == Catalog \o <<Ch10Ground, Ch10Center>>
SubLists(n) ==
    UNION { { [k \in 1..m |-> Pool[f[k]]] :
                f \in { g \in [1..m -> 1..Len(Pool)] :
                           \A k \in 1..(m - 1) : g[k] < g[k + 1] } } :
            m \in 0..n }

\* World::new(): a Hittable with no objects, whose bounding_box is None.
EmptyWorld == World(<<>>)

\* The members of the lists: the catalog and the object without a box.
Members == { Catalog[i] : i \in 1..Len(Catalog) } \cup { EmptyWorld }
ListsOf(set, n) == UNION { [1..k -> set] : k \in 0..n }

\* objects.bounding_box(start_time, end_time) for a list of members
ListBoundingBoxCall(list) ==
    /\ c_call' = Some([fn |-> "bounding_box", list |-> list])
    /\ c_result' = ListBoundingBox(list, StartTime, EndTime)
    /\ UNCHANGED <<geometry_vars, material_vars, integrator_vars, render_vars,
                   new_vars, perlin_vars>>

\* BvhNode::new(&mut list, 0.0, shutter_time) with the axes rnd
BvhNodeNewCall(list, rnd) ==
    /\ c_call' = Some([fn |-> "BvhNode::new", list |-> list, rnd |-> rnd])
    /\ c_result' = Some(BvhNew(list, rnd, StartTime, EndTime))
    /\ UNCHANGED <<geometry_vars, material_vars, integrator_vars, render_vars,
                   new_vars, perlin_vars>>

\* The moving objects: the catalog's still objects, each with a velocity.
Velocities == { <<Unit, 0, 0>>, <<0 - Half, Unit, 0>> }
Movings == { Moving(velocity, Catalog[i]) : velocity \in Velocities, i \in 1..3 }
\* The times of the rays: the shutter is open over [StartTime, EndTime].
ShutterTimes == { StartTime, Unit \div 4, Half, EndTime }

\* self.bounding_box(0.0, shutter_time) and self.hit(ray, 0.001, inf) of a
\* Moving object
MovingCall(self, ray) ==
    /\ c_call' = Some([fn |-> "Moving", self |-> self, ray |-> ray])
    /\ c_result' = [box |-> MovingBoundingBox(self, StartTime, EndTime),
                    hit |-> MovingHit(self, ray, TMin, PInf)]
    /\ UNCHANGED <<geometry_vars, material_vars, integrator_vars, render_vars,
                   new_vars, perlin_vars>>

CallNext ==
    \/ /\ ~c_call.some
       /\ \E list \in ListsOf(Members, MaxList) : ListBoundingBoxCall(list)
    \/ /\ ~c_call.some
       /\ \E self \in Movings, o \in Origins, d \in Directions, tm \in ShutterTimes :
              MovingCall(self, Ray(o, d, tm))
    \/ /\ ~c_call.some
       /\ \E list \in SubLists(MaxBuild) \ {<<>>} :
              \E rnd \in [1..NodeCount(Len(list)) -> 0..2] :
                  BvhNodeNewCall(list, rnd)

CallSpec == Init /\ [][CallNext]_vars

Called(fn) == c_call.some /\ c_call.val.fn = fn
PermutationsOf(n) == { f \in [1..n -> 1..n] : \A i, j \in 1..n : f[i] = f[j] => i = j }
BoxOf(obj) == BoundingBox(obj, StartTime, EndTime)

\* C14: the list's bounding_box is None exactly when the list is empty or
\* some member has no box; otherwise it is the union of the members' boxes:
\* it contains each of them, each of its bounds is the bound of a member,
\* and it is the same for every order of the list.
C14_ListBoxIsUnionOfAll ==
    Called("bounding_box") =>
        LET list == c_call.val.list
        IN  /\ ~c_result.some <=>
                   (list = <<>> \/ \E i \in 1..Len(list) : ~BoxOf(list[i]).some)
            /\ c_result.some =>
                   /\ \A i \in 1..Len(list) : Inside(BoxOf(list[i]).val, c_result.val)
                   /\ \A k \in 1..3 :
                          /\ \E i \in 1..Len(list) :
                                 c_result.val.minimum[k] = BoxOf(list[i]).val.minimum[k]
                          /\ \E i \in 1..Len(list) :
                                 c_result.val.maximum[k] = BoxOf(list[i]).val.maximum[k]
                   /\ \A p \in PermutationsOf(Len(list)) :
                          ListBoundingBox([i \in 1..Len(list) |-> list[p[i]]],
                                          StartTime, EndTime) = c_result
C14_Witness ==
    /\ Called("bounding_box")
    /\ Len(c_call.val.list) = MaxList
    /\ c_result.some
    /\ \E i \in 1..MaxList : c_result.val # BoxOf(c_call.val.list[i]).val

\* The members whose record for the query has a finite t.
FiniteMembers ==
    { i \in 1..Len(objects) : member_hits[i].some /\ IsFinite(member_hits[i].val.t) }

NodeVisit(self, ray, t_min, t_max, left_hit) ==
    [node |-> self, left_hit |-> left_hit,
     right_hit |-> Hit(self.right, ray, t_min,
                       IF left_hit.some THEN FMin(left_hit.val.t, t_max) ELSE t_max)]
RECURSIVE Visits(_, _, _, _)
Visits(obj, ray, t_min, t_max) ==
    IF obj.kind # "BvhNode" THEN {}
    ELSE IF ~is_hit_by(obj.bounding_box, ray, t_min, t_max) THEN {}
    ELSE LET visit == NodeVisit(obj, ray, t_min, t_max,
                                Hit(obj.left, ray, t_min, t_max))
         IN  {visit}
             \cup Visits(obj.left, ray, t_min, t_max)
             \cup Visits(obj.right, ray, t_min,
                         IF visit.left_hit.some
                         THEN FMin(visit.left_hit.val.t, t_max) ELSE t_max)
QueryVisits == Visits(bvh.val, TheRay, query.val.t_min, query.val.t_max)
BothHit(visit) == visit.left_hit.some /\ visit.right_hit.some

\* C16: in BvhNode::hit, whenever the left query and the right query (over
\* the interval tightened to the left hit's t) both return a hit, the right
\* hit's t is strictly less than the left hit's t; the single-object leaf,
\* whose children are one object, included.
C16_RightHitStrictlyNearer ==
    Queried =>
        \A visit \in QueryVisits :
            BothHit(visit) => FLt(visit.right_hit.val.t, visit.left_hit.val.t)

(***************************************************************************)
(* BvhNode::new, call by call.                                             *)
(***************************************************************************)
\* The calls of BvhNode::new the stack of the thread has room for.
MaxStack == 8

\* A list with, for each object, its place in the list given to
\* BvhNode::new and the keys sort_by compares: the minimum of its bounding
\* box on each axis (bounding_box is a pure function of the object).
Keyed(list) ==
    [i \in 1..Len(list) |->
        [id |-> i,
         key |-> [a \in 1..3 |-> SortKey(list[i], a - 1, StartTime, EndTime)]]]

\* list.sort_by on a keyed list.  The sort is stable, so the place of an
\* element is the number of elements with a smaller key, or with an equal
\* key and not after it in the list.
PlaceOf(list, i, axis) ==
    Cardinality({ j \in 1..Len(list) :
                    \/ ~TotalLe(list[i].key[axis + 1], list[j].key[axis + 1])
                    \/ /\ j <= i
                       /\ TotalLe(list[j].key[axis + 1], list[i].key[axis + 1]) })
SortKeyed(list, axis) ==
    [p \in 1..Len(list) |->
        list[CHOOSE i \in 1..Len(list) : PlaceOf(list, i, axis) = p]]

\* BvhNode::new(list, 0.0, shutter_time) is called.
BvhNewCall(list) ==
    /\ n_pc = "idle"
    /\ n_pc' = "running"
    /\ n_stack' = <<Keyed(list)>>
    /\ UNCHANGED <<geometry_vars, material_vars, integrator_vars, render_vars,
                   call_vars, perlin_vars>>

\* What one call of BvhNode::new leaves to run: nothing for a list of one or
\* two objects, else the calls for the two halves of the sorted list.
Halves(sorted) ==
    IF Len(sorted) \in {1, 2} THEN <<>>
    ELSE <<SubSeq(sorted, 1, Len(sorted) \div 2),
           SubSeq(sorted, Len(sorted) \div 2 + 1, Len(sorted))>>

\* The calls still to run once the first of them has run with the axis.
Entered(stack, axis) == Halves(SortKeyed(Head(stack), axis)) \o Tail(stack)

\* The next call of BvhNode::new runs with the drawn axis: it sorts its
\* list and returns a leaf or calls itself on the halves.  A call the stack
\* has no room for aborts the process.
BvhNewEnter(axis) ==
    /\ n_pc = "running"
    /\ n_stack' = Entered(n_stack, axis)
    /\ n_pc' = IF Entered(n_stack, axis) = <<>> THEN "returned"
               ELSE IF Len(Entered(n_stack, axis)) > MaxStack THEN "overflowed"
               ELSE "running"
    /\ UNCHANGED <<geometry_vars, material_vars, integrator_vars, render_vars,
                   call_vars, perlin_vars>>

NewNext ==
    \/ /\ n_pc = "idle"
       /\ \E list \in SubLists(MaxBuild) : BvhNewCall(list)
    \/ \E axis \in 0..2 : BvhNewEnter(axis)

NewSpec == Init /\ [][NewNext]_vars
\* A call that can run does run: the thread is never suspended.
NewFairSpec == NewSpec /\ WF_vars(\E axis \in 0..2 : BvhNewEnter(axis))

\* C17: BvhNode::new terminates for every finite list of objects with
\* bounding boxes, whatever its length and whatever axes are drawn.
C17_BvhNewTerminates == (n_pc = "running") ~> (n_pc = "returned")

\* The objects at the leaves of a tree, from left to right, the object of
\* a single-object leaf (both children one object) taken once.
RECURSIVE LeafSeq(_)
LeafSeq(obj) ==
    IF obj.kind # "BvhNode" THEN <<obj>>
    ELSE IF obj.left = obj.right /\ obj.left.kind # "BvhNode" THEN <<obj.left>>
    ELSE LeafSeq(obj.left) \o LeafSeq(obj.right)
RECURSIVE NodesOf(_)
NodesOf(obj) ==
    IF obj.kind # "BvhNode" THEN {}
    ELSE {obj} \cup NodesOf(obj.left) \cup NodesOf(obj.right)
Count(seq, x) == Cardinality({ i \in 1..Len(seq) : seq[i] = x })
Elements(seq) == { seq[i] : i \in 1..Len(seq) }

\* C18: after BvhNode::new on n >= 1 objects every object of the list is a
\* leaf child of the tree, once, or as both children of a single-object
\* leaf; the list is left a permutation of what it was; every node's box is
\* the union of its children's boxes and contains the box of every object
\* beneath it.
C18_TreeHoldsEveryObject ==
    Called("BvhNode::new") =>
        LET list == c_call.val.list
            node == c_result.val.node
            left_list == c_result.val.list
        IN  /\ Len(left_list) = Len(list)
            /\ \A x \in Elements(list) \cup Elements(left_list) :
                   Count(left_list, x) = Count(list, x)
            /\ LeafSeq(node) = left_list
            /\ \A nd \in NodesOf(node) :
                   /\ nd.left.kind = "BvhNode" <=> nd.right.kind = "BvhNode"
                   /\ nd.bounding_box = union(BoxOf(nd.left).val, BoxOf(nd.right).val)
                   /\ \A x \in Elements(LeafSeq(nd)) :
                          Inside(BoxOf(x).val, nd.bounding_box)
C18_Witness ==
    /\ Called("BvhNode::new")
    /\ Len(c_call.val.list) = MaxBuild
    /\ c_result.val.list # c_call.val.list
    /\ \E nd \in NodesOf(c_result.val.node) : nd.left = nd.right

\* The discriminant and the roots Sphere::hit computes for a ray.
SphereRootsOf(a, half_b, discriminant) ==
    [discriminant |-> discriminant,
     t1 |-> FDiv(FSub(FNeg(half_b), FSqrt(discriminant)), a),
     t2 |-> FDiv(FAdd(FNeg(half_b), FSqrt(discriminant)), a)]
SphereQuadratic(a, half_b, c) ==
    SphereRootsOf(a, half_b, FSub(FMul(half_b, half_b), FMul(a, c)))
SphereRoots(self, ray) ==
    SphereQuadratic(LengthSquared(ray.direction),
                    VDot(ray.direction, VSub(ray.origin, self.center)),
                    FSub(LengthSquared(VSub(ray.origin, self.center)),
                         FMul(self.radius, self.radius)))
InQuery(t) == FLe(query.val.t_min, t) /\ FLe(t, query.val.t_max)

\* What the contract says Sphere::hit returns for roots r: nothing, or the t.
RootChosen(r) ==
    IF FLt(r.discriminant, 0) \/ (~InQuery(r.t1) /\ ~InQuery(r.t2)) THEN None
    ELSE IF InQuery(r.t1) THEN Some(r.t1)
    ELSE Some(r.t2)
ChoosesRoot(i) ==
    LET chosen == RootChosen(SphereRoots(objects[i], TheRay))
    IN  /\ member_hits[i].some = chosen.some
        /\ chosen.some => member_hits[i].val.t = chosen.val

\* |point - center|^2 - radius^2 in exact arithmetic, in squared quanta.
SquaredNorm(v) == v[1] * v[1] + v[2] * v[2] + v[3] * v[3]
OffSphere(sphere, point) ==
    Abs(SquaredNorm(<<point[1] - sphere.center[1], point[2] - sphere.center[2],
                      point[3] - sphere.center[3]>>)
        - sphere.radius * sphere.radius)
FinitePoint(point) == \A k \in 1..3 : IsFinite(point[k])

TermsOf(sphere, ray, point) ==
    SquaredNorm(<<ray.origin[1] - sphere.center[1], ray.origin[2] - sphere.center[2],
                  ray.origin[3] - sphere.center[3]>>)
    + sphere.radius * sphere.radius
    + SquaredNorm(<<point[1] - ray.origin[1], point[2] - ray.origin[2],
                    point[3] - ray.origin[3]>>)
\* The point is on the sphere up to 32 units in the last place of the terms.
NearSphere(sphere, ray, point) ==
    OffSphere(sphere, point) * 2 ^ (Prec - 5) <= TermsOf(sphere, ray, point)

PointInside(point, box) ==
    \A k \in 1..3 : FLe(box.minimum[k], point[k]) /\ FLe(point[k], box.maximum[k])
\* The wrapped box where the object is at the time.
BoxAt(self, time) == offset(BoxOf(self.inner).val, VScale(self.velocity, time))
IsUnionOfEnds(self, box) ==
    box = Some(union(BoxAt(self, StartTime), BoxAt(self, EndTime)))

\* C20: Moving::bounding_box(start, end) is the union of the wrapped box
\* offset by velocity * start and by velocity * end; it contains the wrapped
\* box offset by velocity * time for every ray time in [start, end], and so
\* every point Moving::hit reports for such a ray.
C20_MovingBoxHoldsHitPoints ==
    Called("Moving") =>
        /\ IsUnionOfEnds(c_call.val.self, c_result.box)
        /\ \A time \in ShutterTimes :
               Inside(BoxAt(c_call.val.self, time), c_result.box.val)
        /\ c_result.hit.some =>
               PointInside(c_result.hit.val.point, c_result.box.val)


\* The boxes the query has to pass to reach the i-th object: the object's
\* own bounding_box and that of every node of the tree above it.
BoxesAbove(i) ==
    {ObjectBox(i)}
        \cup { node.bounding_box : node \in
                   { n \in NodesOf(bvh.val) : objects[i] \in Elements(LeafSeq(n)) } }

\* C23: the AABB rejection test never hides a real hit: for every primitive
\* (Sphere of either radius sign, Rect, Moving), every ray and interval, if
\* the primitive's hit returns a hit in [t_min, t_max] then is_hit_by on its
\* bounding_box, and on the box of every node of the tree above it, returns
\* true for the same ray and interval; rays parallel to an axis and hits
\* exactly at t_min or t_max included.
C23_BoxTestKeepsRealHits ==
    Queried =>
        \A i \in 1..Len(objects) :
            (member_hits[i].some /\ InInterval(member_hits[i].val)) =>
                \A box \in BoxesAbove(i) :
                    is_hit_by(box, TheRay, query.val.t_min, query.val.t_max)

(***************************************************************************)
(* perlin.rs                                                               *)
(***************************************************************************)
\* const POINT_COUNT: a power of two, as 256 is.
POINT_COUNT == 4

\* a ^ b on usize
RECURSIVE BitXor(_, _)
BitXor(a, b) ==
    IF a = 0 THEN b
    ELSE IF b = 0 THEN a
    ELSE ((a + b) % 2) + 2 * BitXor(a \div 2, b \div 2)

\* (i as u32) % POINT_COUNT for an i32 i: a negative i is cast to i + 2^32.
AsU32Rem(i) ==
    IF i >= 0 THEN i % POINT_COUNT
    ELSE ((i % POINT_COUNT) + 4 * ((2 ^ 30) % POINT_COUNT)) % POINT_COUNT

\* A swap that overwrites items[i] and leaves items[target] as it was.
swap_overwriting(items, i, target) == [items EXCEPT ![i] = items[target]]

\* items.swap(i, target)
swap(items, i, target) ==
    [items EXCEPT ![i] = items[target], ![target] = items[i]]

\* shuffle from index i down to 1; targets[i] is what gen_range(0..=i) gave.
RECURSIVE ShuffleFrom(_, _, _)
ShuffleFrom(items, i, targets) ==
    IF i = 0 THEN items
    ELSE ShuffleFrom(swap(items, i, targets[i]), i - 1, targets)
shuffle(items, targets) == ShuffleFrom(items, POINT_COUNT - 1, targets)

\* The vectors of ranvec, each component in [-1, 1].
RanVec(n) == <<(2 * n * Unit) \div (POINT_COUNT - 1) - Unit, 0 - Unit, Unit>>

\* (0..POINT_COUNT).collect()
Identity == [n \in 0..(POINT_COUNT - 1) |-> n]

\* Perlin::new with the targets its three shuffles draw.
Perlin(targets) ==
    [ranvec |-> [n \in 0..(POINT_COUNT - 1) |-> RanVec(n)],
     perm_x |-> shuffle(Identity, targets[1]),
     perm_y |-> shuffle(Identity, targets[2]),
     perm_z |-> shuffle(Identity, targets[3])]

\* The place in ranvec int_noise reads for the cell idx.
RanVecIndex(self, idx) ==
    BitXor(BitXor(self.perm_x[AsU32Rem(idx[1])], self.perm_y[AsU32Rem(idx[2])]),
           self.perm_z[AsU32Rem(idx[3])])

\* Perlin::int_noise: the vector, or a panic when the index is out of bounds.
int_noise(self, idx) ==
    IF RanVecIndex(self, idx) \in DOMAIN self.ranvec
    THEN Some([index |-> RanVecIndex(self, idx),
               vector |-> self.ranvec[RanVecIndex(self, idx)]])
    ELSE Panic

\* Every sequence of targets a shuffle can draw: targets[i] in 0..=i.
TargetSequences ==
    { t \in [1..(POINT_COUNT - 1) -> 0..(POINT_COUNT - 1)] :
        \A i \in 1..(POINT_COUNT - 1) : t[i] <= i }
\* Cell indices: around zero, negative ones, and the ends of i32.
CellCoordinates ==
    { 0 - 2147483647 - 1, 0 - POINT_COUNT - 1, 0 - POINT_COUNT, -1, 0, 1,
      POINT_COUNT - 1, POINT_COUNT, 2147483647 }
Cells ==
    { <<i, i, i>> : i \in CellCoordinates }
        \cup { <<i, (0 - 1) - i, 0>> : i \in CellCoordinates }

PerlinNew(targets) ==
    /\ ~p_perlin.some
    /\ p_perlin' = Some(Perlin(targets))
    /\ UNCHANGED <<p_idx, p_sample, geometry_vars, material_vars, integrator_vars,
                   render_vars, call_vars, new_vars>>

IntNoise(idx) ==
    /\ p_perlin.some
    /\ ~p_idx.some
    /\ p_idx' = Some(idx)
    /\ p_sample' = int_noise(p_perlin.val, idx)
    /\ UNCHANGED <<p_perlin, geometry_vars, material_vars, integrator_vars,
                   render_vars, call_vars, new_vars>>

PerlinNext ==
    \/ /\ ~p_perlin.some
       /\ \E tx \in TargetSequences, ty \in TargetSequences, tz \in TargetSequences :
              PerlinNew(<<tx, ty, tz>>)
    \/ /\ p_perlin.some
       /\ ~p_idx.some
       /\ \E idx \in Cells : IntNoise(idx)

PerlinSpec == Init /\ [][PerlinNext]_vars

IsPermutation(perm) ==
    /\ DOMAIN perm = 0..(POINT_COUNT - 1)
    /\ \A n \in 0..(POINT_COUNT - 1) : \E m \in 0..(POINT_COUNT - 1) : perm[m] = n

\* C21: after Perlin::new each of perm_x, perm_y and perm_z is a permutation
\* of 0..POINT_COUNT-1, whatever targets the shuffles drew; for every cell
\* index, negative ones included, int_noise reads ranvec at
\* perm_x[i mod N] XOR perm_y[j mod N] XOR perm_z[k mod N], which is within
\* 0..POINT_COUNT-1.
C21_PermutationsAndIndexInRange ==
    /\ p_perlin.some =>
           /\ IsPermutation(p_perlin.val.perm_x)
           /\ IsPermutation(p_perlin.val.perm_y)
           /\ IsPermutation(p_perlin.val.perm_z)
    /\ p_idx.some =>
           /\ ~IsPanic(p_sample)
           /\ p_sample.val.index \in 0..(POINT_COUNT - 1)
           /\ p_sample.val.index =
                  BitXor(BitXor(p_perlin.val.perm_x[p_idx.val[1] % POINT_COUNT],
                                p_perlin.val.perm_y[p_idx.val[2] % POINT_COUNT]),
                         p_perlin.val.perm_z[p_idx.val[3] % POINT_COUNT])
C21_Witness ==
    /\ p_idx.some
    /\ p_idx.val[1] < 0
    /\ p_perlin.val.perm_x # Identity
    /\ p_perlin.val.perm_y # p_perlin.val.perm_x
    /\ p_sample.val.index = POINT_COUNT - 1

====
